---- MODULE Spec2Model ----
(***************************************************************************)
(* Duckworth-Lewis Standard Edition calculator: the Overs value type        *)
(* (src/src/overs.rs) and the CricketMatch aggregate (src/src/game.rs).     *)
(*                                                                          *)
(* Text is a sequence of one-character strings.  A call is recorded in the  *)
(* variable `call` with its arguments and its outcome, so that the          *)
(* contracts of the operations are state predicates.                        *)
(*                                                                          *)
(* Arithmetic.  u16 arithmetic keeps its width: an overflow panics when the *)
(* build has overflow checks (the dev profile) and wraps modulo 2^16 when   *)
(* it has none (the release profile); `overflow_checks` is chosen once per  *)
(* behaviour.  f32 resource percentages are held exactly, as integers in    *)
(* units of 1/60 of a percent (table entries have one decimal, a ball is a  *)
(* sixth of an over); the rounding of f32 sums, products and quotients is   *)
(* not modelled.  The casts are modelled: usize -> f32 rounds to a 24-bit   *)
(* significand, f32 -> u32 truncates toward zero and saturates.             *)
(***************************************************************************)
EXTENDS Integers, Sequences, FiniteSets, TLC

VARIABLES overflow_checks, created, length, g_50, interruptions, kept, nsub, call

vars == <<overflow_checks, created, length, g_50, interruptions, kept, nsub, call>>

matchVars == <<created, length, g_50, interruptions>>

(***************************************************************************)
(* Bounds of the model and constants of the program                         *)
(***************************************************************************)
MaxTextLen == 5

MaxArgLen == 2

MaxSubs == 2

U16Max == 65535

MaxBalls == 5

BallsPerOver == 6

(***************************************************************************)
(* Text                                                                     *)
(***************************************************************************)
Chars == {"0", "5", "6", ".", "+", "-"}

TextsUpTo(n) == UNION {[1..k -> Chars] : k \in 0..n}

DigitChars == {"0", "1", "2", "3", "4", "5", "6", "7", "8", "9"}

DigitVal(c) ==
    CASE c = "0" -> 0 [] c = "1" -> 1 [] c = "2" -> 2 [] c = "3" -> 3
      [] c = "4" -> 4 [] c = "5" -> 5 [] c = "6" -> 6 [] c = "7" -> 7
      [] c = "8" -> 8 [] c = "9" -> 9

DigitChar(d) == <<"0", "1", "2", "3", "4", "5", "6", "7", "8", "9">>[d + 1]

Min(a, b) == IF a <= b THEN a ELSE b

Max(a, b) == IF a >= b THEN a ELSE b

\* Value of a digit string read left to right, saturated just above the u16
\* range (a value that left the range never comes back into it).
RECURSIVE DigitsValue(_, _)
DigitsValue(t, acc) ==
    IF t = <<>> THEN acc
    ELSE DigitsValue(Tail(t), Min(acc * 10 + DigitVal(Head(t)), U16Max + 1))

\* str::parse::<u16>: an optional leading '+', then one or more decimal
\* digits, the value at most 65535.  NotU16 (-1) stands for Err(ParseIntError).
NotU16 == 0 - 1

ParseU16(t) ==
    LET digits == IF t # <<>> /\ Head(t) = "+" THEN Tail(t) ELSE t
    IN  IF digits = <<>> THEN NotU16
        ELSE IF \E i \in 1..Len(digits) : digits[i] \notin DigitChars THEN NotU16
        ELSE LET v == DigitsValue(digits, 0)
             IN  IF v > U16Max THEN NotU16 ELSE v

\* 1-based positions of c in t, ascending.
Positions(t, c) == {i \in 1..Len(t) : t[i] = c}

FirstPosition(t, c) ==
    CHOOSE i \in Positions(t, c) : \A j \in Positions(t, c) : i <= j

\* str::split('.'): the pieces between the points; a text with n points
\* has n+1 pieces.
RECURSIVE Split(_, _)
Split(t, c) ==
    IF Positions(t, c) = {} THEN <<t>>
    ELSE LET p == FirstPosition(t, c)
         IN  <<SubSeq(t, 1, p - 1)>> \o Split(SubSeq(t, p + 1, Len(t)), c)

(***************************************************************************)
(* Overs                                                                    *)
(***************************************************************************)
Overs(o, b) == [overs |-> o, balls |-> b]

OversNew(o) == Overs(o, 0)

Ok(v) == [ok |-> TRUE, value |-> v]

Err(kind) == [ok |-> FALSE, err |-> kind]

Panic == [ok |-> FALSE, err |-> "panic"]

\* impl FromStr for Overs
from_str_first_two_parts(s) ==
    IF ParseU16(s) # NotU16 THEN Ok(OversNew(ParseU16(s)))
    ELSE LET parts == Split(s, ".")
         IN  IF Len(parts) < 2 THEN Err("InvalidOverFormat")
             ELSE IF ParseU16(parts[1]) = NotU16 THEN Err("OversNotNumeric")
             ELSE IF ParseU16(parts[2]) = NotU16 THEN Err("OversNotNumeric")
             ELSE IF ParseU16(parts[2]) > MaxBalls THEN Err("TooManyBalls")
             ELSE Ok(Overs(ParseU16(parts[1]), ParseU16(parts[2])))

from_str_balls_unchecked(s) ==
    IF ParseU16(s) # NotU16 THEN Ok(OversNew(ParseU16(s)))
    ELSE LET parts == Split(s, ".")
         IN  IF Len(parts) # 2 THEN Err("InvalidOverFormat")
             ELSE IF ParseU16(parts[1]) = NotU16 THEN Err("OversNotNumeric")
             ELSE IF ParseU16(parts[2]) = NotU16 THEN Err("OversNotNumeric")
             ELSE Ok(Overs(ParseU16(parts[1]), ParseU16(parts[2])))

from_str(s) ==
    IF ParseU16(s) # NotU16 THEN Ok(OversNew(ParseU16(s)))
    ELSE LET parts == Split(s, ".")
         IN  IF Len(parts) # 2 THEN Err("InvalidOverFormat")
             ELSE IF ParseU16(parts[1]) = NotU16 THEN Err("OversNotNumeric")
             ELSE IF ParseU16(parts[2]) = NotU16 THEN Err("OversNotNumeric")
             ELSE IF ParseU16(parts[2]) > MaxBalls THEN Err("TooManyBalls")
             ELSE Ok(Overs(ParseU16(parts[1]), ParseU16(parts[2])))

(***************************************************************************)
(* f32 values that are decimals with at most two fractional digits and a    *)
(* whole part below 2^17: for these the shortest text that reads back as    *)
(* the same f32, which is what to_string prints, is the decimal itself.     *)
(***************************************************************************)
Wholes == {0, 37, U16Max - 1, U16Max, U16Max + 1}

Hundredths == {0, 6, 30, 37, 60}

Decimals == [neg : BOOLEAN, whole : Wholes, frac : Hundredths]

RECURSIVE NatText(_)
NatText(n) ==
    IF n < 10 THEN <<DigitChar(n)>>
    ELSE NatText(n \div 10) \o <<DigitChar(n % 10)>>

\* f32::to_string: no point and no fraction for a whole value, no trailing
\* zero, a leading '-' for a negative value (negative zero included).
to_string(x) ==
    (IF x.neg THEN <<"-">> ELSE <<>>)
    \o NatText(x.whole)
    \o (IF x.frac = 0 THEN <<>>
        ELSE <<".", DigitChar(x.frac \div 10)>>
             \o (IF x.frac % 10 = 0 THEN <<>> ELSE <<DigitChar(x.frac % 10)>>))

\* value < u16::MAX as f32
BelowU16Max(x) == x.neg \/ x.whole < U16Max

\* value as u16 for a whole value: the cast saturates, so a negative gives 0.
AsU16(x) == IF x.neg THEN 0 ELSE Min(x.whole, U16Max)

\* impl TryFrom<f32> for Overs
try_from(x) ==
    LET str == to_string(x)
    IN  IF Positions(str, ".") # {}
        THEN from_str(SubSeq(str, 1, Min(FirstPosition(str, ".") + 1, Len(str))))
        ELSE IF BelowU16Max(x) THEN Ok(OversNew(AsU16(x)))
        ELSE Err("InvalidOverFormat")

\* Overs::total_balls: overs * 6 + balls in u16.  Overflowed (-1) stands for
\* the overflow panic of a build with overflow checks.
Overflowed == 0 - 1

total_balls(o, checks) ==
    LET t == o.overs * BallsPerOver + o.balls
    IN  IF t <= U16Max THEN t
        ELSE IF checks THEN Overflowed
        ELSE t % (U16Max + 1)

\* subtract, behind the four impls of Sub
subtract_no_regroup(lhs, rhs, checks) ==
    LET l == total_balls(lhs, checks)
        r == total_balls(rhs, checks)
    IN  IF l = Overflowed \/ r = Overflowed THEN Panic
        ELSE Ok(Overs(Max(lhs.overs - rhs.overs, 0), Max(lhs.balls - rhs.balls, 0)))

subtract(lhs, rhs, checks) ==
    LET l == total_balls(lhs, checks)
        r == total_balls(rhs, checks)
    IN  IF l = Overflowed \/ r = Overflowed THEN Panic
        ELSE LET new_balls == Max(l - r, 0)
             IN  IF new_balls = 0 THEN Ok(Overs(0, 0))
                 ELSE Ok(Overs(new_balls \div BallsPerOver, new_balls % BallsPerOver))

\* derive(Ord, PartialOrd) on struct Overs { overs, balls }: the fields in
\* declaration order.
OversLe(a, b) == a.overs < b.overs \/ (a.overs = b.overs /\ a.balls <= b.balls)

(***************************************************************************)
(* Calls on Overs.  A conversion is invoked (its argument recorded, its     *)
(* result pending) and then returns; `kept` holds an earlier result, the    *)
(* other operand of a subtraction.                                          *)
(***************************************************************************)
NoCall == [op |-> "none", result |-> Err("none")]

Pending == Err("pending")

NewArgs == {0, 5, 25, 10922, 10923, U16Max}

InvokeFromStr(s) ==
    /\ call.result # Pending
    /\ call' = [op |-> "from_str", text |-> s, result |-> Pending]
    /\ UNCHANGED <<overflow_checks, matchVars, kept, nsub>>

FromStr ==
    /\ call.op = "from_str" /\ call.result = Pending
    /\ call' = [call EXCEPT !.result = from_str(call.text)]
    /\ UNCHANGED <<overflow_checks, matchVars, kept, nsub>>

InvokeTryFrom(x) ==
    /\ call.result # Pending
    /\ call' = [op |-> "try_from", value |-> x, result |-> Pending]
    /\ UNCHANGED <<overflow_checks, matchVars, kept, nsub>>

TryFrom ==
    /\ call.op = "try_from" /\ call.result = Pending
    /\ call' = [call EXCEPT !.result = try_from(call.value)]
    /\ UNCHANGED <<overflow_checks, matchVars, kept, nsub>>

InvokeNew(n) ==
    /\ call.result # Pending
    /\ call' = [op |-> "new", arg |-> n, result |-> Ok(OversNew(n))]
    /\ UNCHANGED <<overflow_checks, matchVars, kept, nsub>>

\* kept - latest, or latest - kept; at most MaxSubs subtractions in a
\* behaviour, so that the values reached stay finitely many.
Sub(swap) ==
    /\ call.result.ok
    /\ nsub < MaxSubs
    /\ LET lhs == IF swap THEN call.result.value ELSE kept
           rhs == IF swap THEN kept ELSE call.result.value
       IN  call' = [op |-> "sub", lhs |-> lhs, rhs |-> rhs,
                    result |-> subtract(lhs, rhs, overflow_checks)]
    /\ nsub' = nsub + 1
    /\ UNCHANGED <<overflow_checks, matchVars, kept>>

\* The latest value of a constructor or conversion is held as the other
\* operand of later subtractions (a difference is subtracted from further,
\* but not held).
Keep ==
    /\ call.result.ok /\ call.op # "sub"
    /\ kept' = call.result.value
    /\ kept' # kept
    /\ UNCHANGED <<overflow_checks, matchVars, nsub, call>>

NoMatch ==
    /\ created = FALSE
    /\ length = OversNew(0)
    /\ g_50 = 0
    /\ interruptions = <<>>

InitParse ==
    /\ overflow_checks \in BOOLEAN
    /\ NoMatch
    /\ kept = OversNew(0)
    /\ nsub = 0
    /\ call \in {[op |-> "from_str", text |-> s, result |-> Pending] :
                    s \in TextsUpTo(MaxTextLen)}
                \cup {[op |-> "try_from", value |-> x, result |-> Pending] :
                         x \in Decimals}

NextParse == FromStr \/ TryFrom

SpecParse == InitParse /\ [][NextParse]_vars

InitOvers ==
    /\ overflow_checks \in BOOLEAN
    /\ NoMatch
    /\ kept = OversNew(0)
    /\ nsub = 0
    /\ call = NoCall

NextOvers ==
    \/ \E n \in NewArgs : InvokeNew(n)
    \/ \E s \in TextsUpTo(MaxArgLen) : InvokeFromStr(s)
    \/ FromStr
    \/ \E x \in Decimals : InvokeTryFrom(x)
    \/ TryFrom
    \/ \E swap \in BOOLEAN : Sub(swap)
    \/ Keep

SpecOvers == InitOvers /\ [][NextOvers]_vars

(***************************************************************************)
(* The resource table.  Its entries are published data that the sources     *)
(* under study do not hold; the model uses a stand-in with the properties   *)
(* the specification states: a percentage with one decimal for 0..50 whole  *)
(* overs left and 0..9 wickets lost, 100.0 for 50 overs and no wicket, 0    *)
(* for no overs, non-decreasing in the overs, non-increasing in the         *)
(* wickets, linear within an over for a number of balls.  Entries are in    *)
(* tenths of a percent, resources in sixtieths (tenths times the six balls  *)
(* of an over).                                                             *)
(***************************************************************************)
MaxLength == 50

MaxWickets == 10

TableEntry(o, w) == ((MaxWickets - w) * o * (2 * MaxLength - o)) \div (MaxLength \div 2)

\* The overs the table has an answer for: whole overs up to 50, and parts
\* of an over below 50, where the next whole over is in the table too.
InTable(o) == o.overs < MaxLength \/ (o.overs = MaxLength /\ o.balls = 0)

resources_remaining(o, w) ==
    IF w >= MaxWickets \/ (o.overs = 0 /\ o.balls = 0) THEN 0
    ELSE IF o.balls = 0 THEN BallsPerOver * TableEntry(o.overs, w)
    ELSE (BallsPerOver - o.balls) * TableEntry(o.overs, w)
         + o.balls * TableEntry(o.overs + 1, w)

\* Resources per percent, in the unit of resources_remaining.
PerPercent == BallsPerOver * 10

(***************************************************************************)
(* CricketMatch                                                             *)
(***************************************************************************)
G50_FULL == 245

G50_OTHER == 200

F32Exact == 16777216

Grades == {"ICCFullMember", "FirstClass", "U19International", "U15International",
           "WomensInternational", "ICCAssociateMember"}

Innings == {"First", "Second"}

G50Of(grade) ==
    IF grade \in {"ICCFullMember", "FirstClass"} THEN G50_FULL ELSE G50_OTHER

\* first_innings_total as f32: the nearest value with a 24-bit significand,
\* a tie going to the even significand.
RECURSIVE F32Unit(_, _)
F32Unit(n, u) == IF n \div u < F32Exact THEN u ELSE F32Unit(n, 2 * u)

F32OfNat(n) ==
    LET u == F32Unit(n, 1)
        q == n \div u
        r == n % u
    IN  IF 2 * r > u \/ (2 * r = u /\ q % 2 = 1) THEN (q + 1) * u ELSE q * u

\* floor(f * a / b) for f, a >= 0 and b > 0, without a product of f and a.
MulDivFloor(f, a, b) == (f \div b) * a + ((f % b) * a) \div b

\* (f * (t2 / t1) + 1.0) as u32, for t2 < t1.  The cast truncates toward
\* zero and saturates: a negative value, an infinity below zero and a NaN
\* (a zero t1, with the t2 below it) all give 0.
ScaledDown(f, t1, t2) ==
    IF t1 = 0 THEN 0
    ELSE IF t1 < 0 THEN 1 + MulDivFloor(f, 0 - t2, 0 - t1)
    ELSE IF t2 >= 0 THEN 1 + MulDivFloor(f, t2, t1)
    ELSE IF f = 0 THEN 1
    ELSE 0

\* (f + (t2 - t1) * g_50 / 100.0 + 1.0) as u32, for t2 > t1.
ScaledUp(f, t1, t2, g50) == f + ((t2 - t1) * g50) \div (PerPercent * 100) + 1

NoFault == "none"

\* Interruption::resource_loss.  A lookup outside the table and the panic of
\* an overflowing subtraction end the computation; the first one is kept.
resource_loss(int, checks) ==
    LET resumed == subtract(int.overs_left, int.overs_lost, checks)
    IN  IF ~InTable(int.overs_left) THEN [fault |-> "out_of_table", loss |-> 0]
        ELSE IF ~resumed.ok THEN [fault |-> "panic", loss |-> 0]
        ELSE IF ~InTable(resumed.value) THEN [fault |-> "out_of_table", loss |-> 0]
        ELSE [fault |-> NoFault,
              loss |-> resources_remaining(int.overs_left, int.wickets)
                       - resources_remaining(resumed.value, int.wickets)]

\* The fold over the first-innings interruptions:
\* (resources - int.resource_loss(), overs - &int.overs_lost)
RECURSIVE FoldFirst(_, _, _)
FoldFirst(ints, acc, checks) ==
    IF ints = <<>> \/ acc.fault # NoFault THEN acc
    ELSE LET int == Head(ints)
             rl == resource_loss(int, checks)
             left == subtract(acc.overs, int.overs_lost, checks)
         IN  FoldFirst(Tail(ints),
                 IF rl.fault # NoFault THEN [acc EXCEPT !.fault = rl.fault]
                 ELSE IF ~left.ok THEN [acc EXCEPT !.fault = "panic"]
                 ELSE [fault |-> NoFault,
                       resources |-> acc.resources - rl.loss,
                       overs |-> left.value],
                 checks)

\* The fold over the second-innings interruptions:
\* resources - int.resource_loss()
RECURSIVE FoldSecond(_, _, _)
FoldSecond(ints, acc, checks) ==
    IF ints = <<>> \/ acc.fault # NoFault THEN acc
    ELSE LET rl == resource_loss(Head(ints), checks)
         IN  FoldSecond(Tail(ints),
                 IF rl.fault # NoFault THEN [acc EXCEPT !.fault = rl.fault]
                 ELSE [acc EXCEPT !.resources = acc.resources - rl.loss],
                 checks)

IsFirst(int) == int.innings = "First"

IsSecond(int) == int.innings = "Second"

\* CricketMatch::initial_resources and the first fold
Team1(len, ints, checks) ==
    IF ~InTable(len) THEN [fault |-> "out_of_table", resources |-> 0, overs |-> len]
    ELSE FoldFirst(SelectSeq(ints, IsFirst),
                   [fault |-> NoFault,
                    resources |-> resources_remaining(len, 0),
                    overs |-> len],
                   checks)

\* The lookup for total_overs and the second fold
Team2(t1, ints, checks) ==
    IF t1.fault # NoFault THEN t1
    ELSE IF ~InTable(t1.overs) THEN [t1 EXCEPT !.fault = "out_of_table"]
    ELSE FoldSecond(SelectSeq(ints, IsSecond),
                    [t1 EXCEPT !.resources = resources_remaining(t1.overs, 0)],
                    checks)

\* CricketMatch::revised_target: the outcome with the resources it computed.
revised_target_no_empty_check(len, g50, ints, total, checks) ==
    LET t1 == Team1(len, ints, checks)
        t2 == Team2(t1, ints, checks)
        f == F32OfNat(total)
    IN  IF t2.fault # NoFault
        THEN [result |-> Err(t2.fault), t1 |-> 0, overs |-> len, t2 |-> 0]
        ELSE [result |-> Ok(IF t2.resources < t1.resources
                                THEN ScaledDown(f, t1.resources, t2.resources)
                            ELSE IF t2.resources > t1.resources
                                THEN ScaledUp(f, t1.resources, t2.resources, g50)
                            ELSE f),
              t1 |-> t1.resources, overs |-> t1.overs, t2 |-> t2.resources]

revised_target(len, g50, ints, total, checks) ==
    IF ints = <<>> THEN [result |-> Ok(0), t1 |-> 0, overs |-> len, t2 |-> 0]
    ELSE revised_target_no_empty_check(len, g50, ints, total, checks)

\* The lookups resources_remaining(overs, wickets) of one resource_loss, in
\* the order made; a lookup outside the table and a panic end them.
LossLookups(int, checks) ==
    LET resumed == subtract(int.overs_left, int.overs_lost, checks)
    IN  <<[overs |-> int.overs_left, wickets |-> int.wickets]>>
        \o (IF InTable(int.overs_left) /\ resumed.ok
            THEN <<[overs |-> resumed.value, wickets |-> int.wickets]>>
            ELSE <<>>)

\* The lookups of the fold over the first-innings interruptions
RECURSIVE FirstLookups(_, _, _)
FirstLookups(ints, overs, checks) ==
    IF ints = <<>> THEN <<>>
    ELSE LET int == Head(ints)
             left == subtract(overs, int.overs_lost, checks)
         IN  LossLookups(int, checks)
             \o (IF resource_loss(int, checks).fault = NoFault /\ left.ok
                 THEN FirstLookups(Tail(ints), left.value, checks)
                 ELSE <<>>)

\* The lookups of the fold over the second-innings interruptions
RECURSIVE SecondLookups(_, _)
SecondLookups(ints, checks) ==
    IF ints = <<>> THEN <<>>
    ELSE LossLookups(Head(ints), checks)
         \o (IF resource_loss(Head(ints), checks).fault = NoFault
             THEN SecondLookups(Tail(ints), checks)
             ELSE <<>>)

\* Every lookup one call of revised_target makes, in the order made:
\* R(length, 0), those of the first fold, R(total_overs, 0), those of the
\* second fold.
Lookups(len, ints, checks) ==
    IF ints = <<>> THEN <<>>
    ELSE LET t1 == Team1(len, ints, checks)
         IN  <<[overs |-> len, wickets |-> 0]>>
             \o (IF ~InTable(len) THEN <<>>
                 ELSE FirstLookups(SelectSeq(ints, IsFirst), len, checks)
                      \o (IF t1.fault # NoFault THEN <<>>
                          ELSE <<[overs |-> t1.overs, wickets |-> 0]>>
                               \o (IF ~InTable(t1.overs) THEN <<>>
                                   ELSE SecondLookups(SelectSeq(ints, IsSecond),
                                                      checks))))

(***************************************************************************)
(* Calls on CricketMatch                                                    *)
(***************************************************************************)
MaxInterruptions == 2

LengthArgs == {Overs(MaxLength, 0), Overs(MaxLength, 3), Overs(MaxLength + 1, 0)}

GradeArgs == {"ICCFullMember", "ICCAssociateMember"}

G50Args == {0}

WicketArgs == {3, MaxWickets}

OversLeftArgs == {Overs(30, 0), Overs(MaxLength, 3)}

OversLostArgs == {Overs(0, 0), Overs(MaxLength, 0), Overs(10923, 0)}

Totals == {0, 180, F32Exact + 1}

\* CricketMatch::new
NewMatch(len, grade) ==
    /\ ~created
    /\ call' = [op |-> "CricketMatch::new", length |-> len, grade |-> grade,
                result |-> IF len.overs <= MaxLength THEN Ok(len) ELSE Panic]
    /\ IF len.overs <= MaxLength
       THEN /\ created' = TRUE
            /\ length' = len
            /\ g_50' = G50Of(grade)
            /\ interruptions' = <<>>
       ELSE UNCHANGED matchVars
    /\ UNCHANGED <<overflow_checks, kept, nsub>>

\* CricketMatch::new_with_g_50
NewMatchWithG50(len, g) ==
    /\ ~created
    /\ call' = [op |-> "CricketMatch::new_with_g_50", length |-> len, g_50 |-> g,
                result |-> IF len.overs <= MaxLength THEN Ok(len) ELSE Panic]
    /\ IF len.overs <= MaxLength
       THEN /\ created' = TRUE
            /\ length' = len
            /\ g_50' = g
            /\ interruptions' = <<>>
       ELSE UNCHANGED matchVars
    /\ UNCHANGED <<overflow_checks, kept, nsub>>

\* CricketMatch::interruption
InterruptionPrepending(w, left, lost, inn) ==
    /\ created
    /\ Len(interruptions) < MaxInterruptions
    /\ LET int == [wickets |-> w, overs_left |-> left, overs_lost |-> lost,
                   innings |-> inn]
           accepted == w < MaxWickets /\ OversLe(left, length)
       IN  /\ call' = [op |-> "interruption", int |-> int,
                       result |-> IF accepted THEN Ok(left) ELSE Panic]
           /\ interruptions' = IF accepted THEN <<int>> \o interruptions
                               ELSE interruptions
    /\ UNCHANGED <<overflow_checks, created, length, g_50, kept, nsub>>

InterruptionNoOversAssert(w, left, lost, inn) ==
    /\ created
    /\ Len(interruptions) < MaxInterruptions
    /\ LET int == [wickets |-> w, overs_left |-> left, overs_lost |-> lost,
                   innings |-> inn]
           accepted == w < MaxWickets
       IN  /\ call' = [op |-> "interruption", int |-> int,
                       result |-> IF accepted THEN Ok(left) ELSE Panic]
           /\ interruptions' = IF accepted THEN Append(interruptions, int)
                               ELSE interruptions
    /\ UNCHANGED <<overflow_checks, created, length, g_50, kept, nsub>>

Interruption(w, left, lost, inn) ==
    /\ created
    /\ Len(interruptions) < MaxInterruptions
    /\ LET int == [wickets |-> w, overs_left |-> left, overs_lost |-> lost,
                   innings |-> inn]
           accepted == w < MaxWickets /\ OversLe(left, length)
       IN  /\ call' = [op |-> "interruption", int |-> int,
                       result |-> IF accepted THEN Ok(left) ELSE Panic]
           /\ interruptions' = IF accepted THEN Append(interruptions, int)
                               ELSE interruptions
    /\ UNCHANGED <<overflow_checks, created, length, g_50, kept, nsub>>

\* The other call of two successive calls: what tells a repeated call from
\* no call.
Nth == IF call.op = "revised_target" THEN 1 - call.nth ELSE 0

\* CricketMatch::revised_target(&self, first_innings_total)
RevisedTargetDraining(total) ==
    /\ created
    /\ call' = [op |-> "revised_target", total |-> total, nth |-> Nth]
                @@ revised_target(length, g_50, interruptions, total, overflow_checks)
    /\ interruptions' = <<>>
    /\ UNCHANGED <<overflow_checks, created, length, g_50, kept, nsub>>

RevisedTarget(total) ==
    /\ created
    /\ call' = [op |-> "revised_target", total |-> total, nth |-> Nth]
                @@ revised_target(length, g_50, interruptions, total, overflow_checks)
    /\ UNCHANGED <<overflow_checks, matchVars, kept, nsub>>

InitMatch ==
    /\ overflow_checks \in BOOLEAN
    /\ NoMatch
    /\ kept = OversNew(0)
    /\ nsub = 0
    /\ call = NoCall

Next ==
    \/ \E len \in LengthArgs, grade \in GradeArgs : NewMatch(len, grade)
    \/ \E len \in LengthArgs, g \in G50Args : NewMatchWithG50(len, g)
    \/ \E w \in WicketArgs, left \in OversLeftArgs, lost \in OversLostArgs,
          inn \in Innings : Interruption(w, left, lost, inn)
    \/ \E total \in Totals : RevisedTarget(total)

Spec == InitMatch /\ [][Next]_vars

(***************************************************************************)
(* Properties of Overs                                                      *)
(***************************************************************************)
\* The number a digit string denotes, whatever its size.
RECURSIVE Num(_)
Num(d) ==
    IF d = <<>> THEN 0
    ELSE 10 * Num(SubSeq(d, 1, Len(d) - 1)) + DigitVal(d[Len(d)])

Unsigned(t) == IF t # <<>> /\ t[1] = "+" THEN SubSeq(t, 2, Len(t)) ELSE t

\* t is a non-negative integer in decimal, a leading '+' allowed.
NonNegInt(t) ==
    /\ Unsigned(t) # <<>>
    /\ \A i \in 1..Len(Unsigned(t)) : Unsigned(t)[i] \in DigitChars

\* ... that fits the 16 bits of Overs::overs and Overs::balls.
U16Int(t) == NonNegInt(t) /\ Num(Unsigned(t)) <= U16Max

Points(t) == Cardinality({i \in 1..Len(t) : t[i] = "."})

LeftOfPoint(t) == SubSeq(t, 1, (CHOOSE i \in 1..Len(t) : t[i] = ".") - 1)

RightOfPoint(t) == SubSeq(t, (CHOOSE i \in 1..Len(t) : t[i] = ".") + 1, Len(t))

Returned(op) == call.op = op /\ call.result # Pending

TotalDeliveries(o) == o.overs * BallsPerOver + o.balls

\* C6 (as claimed): for all Overs a, b with any 16-bit overs and balls in
\* 0..5, a - b does not panic and is max(0, a.totalDeliveries() -
\* b.totalDeliveries()) as (quotient, remainder) of the division by 6.
C6_SubtractSaturates ==
    Returned("sub") =>
        LET d == Max(TotalDeliveries(call.lhs) - TotalDeliveries(call.rhs), 0)
        IN  call.result = Ok(Overs(d \div BallsPerOver, d % BallsPerOver))

\* C7 (as claimed): parse succeeds exactly on "<overs>" or "<overs>.<balls>"
\* with both components non-negative integers and balls <= 5; otherwise it
\* returns InvalidOverFormat if the text has more than one point,
\* OversNotNumeric if a side of the one point is not a non-negative integer,
\* TooManyBalls if the ball component is 6 or more.
C7_ParseAsClaimed ==
    Returned("from_str") =>
        LET s == call.text
            r == call.result
            form == \/ NonNegInt(s)
                    \/ /\ Points(s) = 1
                       /\ NonNegInt(LeftOfPoint(s)) /\ NonNegInt(RightOfPoint(s))
                       /\ Num(Unsigned(RightOfPoint(s))) <= MaxBalls
        IN  /\ r.ok <=> form
            /\ ~r.ok => r.err \in {"InvalidOverFormat", "OversNotNumeric", "TooManyBalls"}
            /\ Points(s) > 1 => r = Err("InvalidOverFormat")
            /\ (Points(s) = 1 /\ ~(NonNegInt(LeftOfPoint(s)) /\ NonNegInt(RightOfPoint(s))))
                   => r = Err("OversNotNumeric")
            /\ (/\ Points(s) = 1
                /\ NonNegInt(LeftOfPoint(s)) /\ NonNegInt(RightOfPoint(s))
                /\ Num(Unsigned(RightOfPoint(s))) > MaxBalls)
                   => r = Err("TooManyBalls")

\* C7 (amended): parse succeeds exactly on "<overs>" or "<overs>.<balls>"
\* with both components integers in 0..65535 (a leading '+' allowed) and
\* balls <= 5, giving those overs and balls.  Otherwise it returns
\* InvalidOverFormat if the text does not have exactly one point (none, or
\* more than one), OversNotNumeric if it has one point and a side of it is
\* not an integer in 0..65535, TooManyBalls if both sides are and the ball
\* component is 6 or more.
C7_ParseContract ==
    Returned("from_str") =>
        LET s == call.text
            r == call.result
        IN  IF Points(s) = 0 /\ U16Int(s) THEN r = Ok(Overs(Num(Unsigned(s)), 0))
            ELSE IF Points(s) # 1 THEN r = Err("InvalidOverFormat")
            ELSE IF ~(U16Int(LeftOfPoint(s)) /\ U16Int(RightOfPoint(s)))
                 THEN r = Err("OversNotNumeric")
            ELSE IF Num(Unsigned(RightOfPoint(s))) > MaxBalls THEN r = Err("TooManyBalls")
            ELSE r = Ok(Overs(Num(Unsigned(LeftOfPoint(s))),
                              Num(Unsigned(RightOfPoint(s)))))

\* A text with one point and a ball component of 6 has been refused, as has
\* been (in another state) every other kind; this one is the ball check.
C7_Witness ==
    /\ Returned("from_str")
    /\ call.text = <<"+", "5", ".", "0", "6">>
    /\ call.result = Err("TooManyBalls")

AllOvers ==
    {kept}
    \cup (IF call.op = "sub" THEN {call.lhs, call.rhs} ELSE {})
    \cup (IF call.result.ok THEN {call.result.value} ELSE {})

\* C8: every Overs value that new, parse, the conversion from a decimal and
\* subtraction produce has balls < 6, and a decimal whose first fractional
\* digit is 6 or more is refused, not carried over into the overs.
C8_BallsBelowSix ==
    /\ \A o \in AllOvers : o.balls \in 0..MaxBalls /\ o.overs \in 0..U16Max
    /\ (Returned("try_from") /\ call.value.frac \div 10 > MaxBalls) => ~call.result.ok

C8_Witness ==
    /\ Returned("try_from")
    /\ call.value.frac = 60
    /\ call.result = Err("TooManyBalls")
    /\ kept.balls > 0
    /\ nsub > 0

\* The decimal text of x cut after the first fractional digit.
DecimalText(x) ==
    (IF x.neg THEN <<"-">> ELSE <<>>)
    \o NatText(x.whole)
    \o <<".", DigitChar(x.frac \div 10)>>

\* C9 (as claimed): the conversion from a decimal x gives what parse gives
\* on the decimal text of x cut after one fractional digit: the same Overs
\* when parse succeeds, a failure when parse fails.
C9_TryFromMatchesParse ==
    Returned("try_from") =>
        LET p == from_str(DecimalText(call.value))
        IN  IF p.ok THEN call.result = p ELSE ~call.result.ok

(***************************************************************************)
(* Properties of CricketMatch                                               *)
(***************************************************************************)
Abs(n) == IF n < 0 THEN 0 - n ELSE n

\* The integer part of n / d, the fraction discarded (d # 0).
IntegerPart(n, d) ==
    IF (n < 0) = (d < 0) THEN Abs(n) \div Abs(d) ELSE 0 - (Abs(n) \div Abs(d))

TargetReturned == call.op = "revised_target" /\ interruptions # <<>> /\ call.result.ok

\* C1 (as claimed, for the totals an f32 holds exactly): with an
\* interruption recorded, revised_target(total) is the integer part of
\* total * (t2 / t1) + 1 when t2 < t1 and of
\* total + (t2 - t1) * g50 / 100 + 1 when t2 > t1.
C1_TargetFormula ==
    (TargetReturned /\ call.total < F32Exact) =>
        /\ (call.t2 < call.t1 /\ call.t1 # 0) =>
               call.result.value
                   = IntegerPart(call.total * call.t2 + call.t1, call.t1)
        /\ call.t2 > call.t1 =>
               call.result.value
                   = IntegerPart(call.total * PerPercent * 100
                                     + (call.t2 - call.t1) * g_50
                                     + PerPercent * 100,
                                 PerPercent * 100)

\* C2 (as claimed): with an interruption recorded and t2 equal to t1,
\* revised_target(total) is exactly total.
C2_EqualReturnsTotal ==
    (TargetReturned /\ call.t2 = call.t1) => call.result.value = call.total

\* C3: with no interruption recorded, revised_target returns 0 whatever the
\* total, the length and the g50.
C3_NoInterruptionsGivesZero ==
    (call.op = "revised_target" /\ interruptions = <<>>) => call.result = Ok(0)

C3_Witness ==
    /\ call.op = "revised_target"
    /\ interruptions = <<>>
    /\ call.total = F32Exact + 1
    /\ length = Overs(MaxLength, 3)
    /\ g_50 = G50_OTHER
    /\ call.result = Ok(0)

\* C4: a call of revised_target leaves length, g50 and the interruptions as
\* they are, and a call repeated with the same total returns the same.
C4_PureRead ==
    [][(call'.op = "revised_target" /\ call' # call) =>
           /\ matchVars' = matchVars
           /\ (call.op = "revised_target" /\ call.total = call'.total) =>
                  call'.result = call.result]_vars

C4_Witness ==
    /\ call.op = "revised_target"
    /\ call.nth = 1
    /\ Len(interruptions) = MaxInterruptions
    /\ call.result.ok
    /\ call.result.value > call.total

InterruptionsValid ==
    \A i \in 1..Len(interruptions) :
        /\ interruptions[i].wickets < MaxWickets
        /\ TotalDeliveries(interruptions[i].overs_left) <= TotalDeliveries(length)

RefusedCallsPanic ==
    /\ (/\ call.op \in {"CricketMatch::new", "CricketMatch::new_with_g_50"}
        /\ call.length.overs > MaxLength)
           => ~created /\ call.result = Panic
    /\ (/\ call.op = "interruption"
        /\ \/ call.int.wickets >= MaxWickets
           \/ TotalDeliveries(call.int.overs_left) > TotalDeliveries(length))
           => call.result = Panic

\* C5: the length of a match is at most 50 overs and every recorded
\* interruption has wickets < 10 and overs_left <= length in deliveries; a
\* construction with more than 50 overs panics and creates no match, an
\* interruption() with wickets >= 10 or overs_left > length panics and
\* appends nothing.
C5_InvariantsEnforced ==
    /\ [](created => length.overs <= MaxLength /\ InterruptionsValid)
    /\ []RefusedCallsPanic
    /\ [][(call'.op = "interruption" /\ call'.result = Panic) =>
              interruptions' = interruptions]_vars

C5_Witness ==
    /\ call.op = "interruption"
    /\ call.result = Panic
    /\ call.int.wickets < MaxWickets
    /\ Len(interruptions) = 1

\* Subtraction of overs as the claims state it: never below zero.
SaturatingSub(a, b) ==
    LET d == Max(TotalDeliveries(a) - TotalDeliveries(b), 0)
    IN  Overs(d \div BallsPerOver, d % BallsPerOver)

Loss(int) ==
    resources_remaining(int.overs_left, int.wickets)
    - resources_remaining(SaturatingSub(int.overs_left, int.overs_lost), int.wickets)

RECURSIVE SumLoss(_, _)
SumLoss(ints, inn) ==
    IF ints = <<>> THEN 0
    ELSE (IF Head(ints).innings = inn THEN Loss(Head(ints)) ELSE 0)
         + SumLoss(Tail(ints), inn)

RECURSIVE OversAfterFirst(_, _)
OversAfterFirst(ints, overs) ==
    IF ints = <<>> THEN overs
    ELSE OversAfterFirst(Tail(ints),
             IF Head(ints).innings = "First"
             THEN SaturatingSub(overs, Head(ints).overs_lost) ELSE overs)

\* C10 (as claimed): t1 is R(length, 0) less the losses of the first-innings
\* interruptions, totalOvers is length less (never below zero) their
\* overs_lost, t2 is R(totalOvers, 0) less the losses of the second-innings
\* interruptions, a loss being R(overs_left, wickets) -
\* R(overs_left - overs_lost, wickets) with the subtraction never below zero.
C10_ResourcesPerInnings ==
    (/\ call.op = "revised_target"
     /\ interruptions # <<>>
     /\ InTable(length)) =>
        /\ call.result.ok
        /\ call.t1 = resources_remaining(length, 0) - SumLoss(interruptions, "First")
        /\ call.overs = OversAfterFirst(interruptions, length)
        /\ call.t2 = resources_remaining(OversAfterFirst(interruptions, length), 0)
                     - SumLoss(interruptions, "Second")

\* C11: a successful interruption(wickets, overs_left, overs_lost, innings)
\* appends one record with those four values at the end of the interruptions
\* and leaves length, g50 and the records before it as they are; no other
\* step changes the interruptions, so they are the successful calls in call
\* order and no record is modified, removed or reordered.
C11_AppendOnly ==
    [][/\ (call'.op = "interruption" /\ call'.result.ok) =>
              /\ interruptions' = Append(interruptions, call'.int)
              /\ length' = length
              /\ g_50' = g_50
       /\ ~(call'.op = "interruption" /\ call'.result.ok) =>
              interruptions' = interruptions
       /\ SubSeq(interruptions', 1, Len(interruptions)) = interruptions]_vars

C11_Witness ==
    /\ call.op = "interruption"
    /\ call.result.ok
    /\ Len(interruptions) = 2
    /\ interruptions[2] = call.int
    /\ interruptions[1].innings = "Second"
    /\ interruptions[2].innings = "First"
    /\ interruptions[1].overs_lost # interruptions[2].overs_lost

\* C12 (as claimed): every lookup that revised_target makes in the resource
\* table (for length, for total_overs, and for each interruption's overs_left
\* and overs_left - overs_lost) has at most 50 overs remaining, that is at
\* most 300 deliveries, and wickets lost in 0..9.
C12_LookupsInTable ==
    call.op = "revised_target" =>
        \A i \in 1..Len(Lookups(length, interruptions, overflow_checks)) :
            LET l == Lookups(length, interruptions, overflow_checks)[i]
            IN  /\ TotalDeliveries(l.overs) <= MaxLength * BallsPerOver
                /\ l.wickets \in 0..(MaxWickets - 1)

\* C13 (as claimed): for the interruptions that interruption() accepted, the
\* t1 and the t2 that revised_target computes are not negative, and when
\* t2 < t1 the divisor t1 is positive, so that t2 / t1 is in [0, 1).
C13_ResourcesNonNegative ==
    TargetReturned =>
        /\ call.t1 >= 0
        /\ call.t2 >= 0
        /\ call.t2 < call.t1 => call.t1 > 0

====
